---- MODULE Spec2Model ----
(***************************************************************************)
(* A model of pytomoatt/io/crust.py: class CrustModel, which flattens the  *)
(* CRUST1.0 per-cell depth profiles into a point cloud (model2points),     *)
(* interpolates them onto a regular grid and fills the undefined cells     *)
(* along depth (griddata), optionally blurs the grid (smooth) and writes   *)
(* four datasets to an HDF5 container (write).                             *)
(*                                                                         *)
(* Floating point numbers are modelled by integers, NaN by the integer     *)
(* NaN.  Python's 0-based indices are 1-based here.                        *)
(***************************************************************************)
EXTENDS Integers, Sequences, FiniteSets, TLC

VARIABLES
    npz,          \* the content of the source-model file: [data, lat, lon]
    constructed,  \* __init__ has returned
    mod_data,     \* self.mod_data
    mod_lat,      \* self.mod_lat
    mod_lon,      \* self.mod_lon
    points,       \* self.points: a sequence of rows <<dep, lat, lon, vp>>
    eta, xi, zeta, vel,  \* self.eta, self.xi, self.zeta, self.vel
    disk,         \* the file system: file name -> container
    last,         \* history: the last call, its outcome and the stage it reached
    hist,         \* history: the last successful griddata (counts, interpolated grid)
    g_in, g_out, passes  \* the hole-fill loop applied on its own: input, output, passes

vars == <<npz, constructed, mod_data, mod_lat, mod_lon, points,
          eta, xi, zeta, vel, disk, last, hist, g_in, g_out, passes>>

obj == <<constructed, mod_data, mod_lat, mod_lon, points>>
arrays == <<eta, xi, zeta, vel>>
fillvars == <<g_in, g_out, passes>>

(***************************************************************************)
(* Bounds of the model.                                                    *)
(***************************************************************************)
MaxCells == 4     \* source models of the flattening check: n_lat * n_lon <= MaxCells
MaxProf == 2      \* ... and profiles of at most MaxProf samples
MaxNDep == 3      \* griddata: n_rtp[0] <= MaxNDep
MaxNLat == 2      \* griddata: n_rtp[1] <= MaxNLat
MaxNLon == 1      \* griddata: n_rtp[2] <= MaxNLon
MaxHoles == 1     \* cells inside the hull that a NaN-valued simplex vertex makes NaN
MaxFillDep == 4   \* the fill loop on its own: depth of the grid

NaN == 0 - 1

Min(S) == CHOOSE x \in S : \A y \in S : x <= y
Max(S) == CHOOSE x \in S : \A y \in S : x >= y

(***************************************************************************)
(* numpy arrays of rank 3: a shape and one value per index triple.  An     *)
(* attribute that was never assigned is Unset (reading it raises           *)
(* AttributeError).                                                        *)
(***************************************************************************)
Idx(shape) == (1..shape[1]) \X (1..shape[2]) \X (1..shape[3])

\* the value of f, tabulated (a comparison evaluates a function at every argument)
TabulatedFn(f) == IF f = <<>> THEN f ELSE f

Array(shape, f) == [set |-> TRUE, shape |-> shape, data |-> TabulatedFn(f)]

Unset == [set |-> FALSE, shape |-> <<0, 0, 0>>, data |-> [x \in {} |-> 0]]

\* np.zeros(n_rtp)
Zeros(n_rtp) == Array(n_rtp, [x \in Idx(n_rtp) |-> 0])

(***************************************************************************)
(* model2points (lines 36-48): one row [dep, lat, lon, all_vp[k]] per      *)
(* sample k of all_dep, for every lat index i and lon index j, appended    *)
(* in loop order.                                                          *)
(***************************************************************************)
CellRowsFirstVp(cell, lat, lon) ==
    [k \in 1..Len(cell.depth) |-> <<cell.depth[k], lat, lon, cell.vp[1]>>]

\* lines 42-48: the inner loop over one cell's samples
CellRows(cell, lat, lon) ==
    [k \in 1..Len(cell.depth) |-> <<cell.depth[k], lat, lon, cell.vp[k]>>]

RECURSIVE LonLoop(_, _, _, _)
\* line 41: for j, lon in enumerate(self.mod_lon)
LonLoop(row, lat, lons, j) ==
    IF j > Len(lons) THEN <<>>
    ELSE CellRows(row[j], lat, lons[j]) \o LonLoop(row, lat, lons, j + 1)

RECURSIVE LatLoop(_, _, _, _)
\* line 40: for i, lat in enumerate(self.mod_lat)
LatLoop(data, lats, lons, i) ==
    IF i > Len(lats) THEN <<>>
    ELSE LonLoop(data[i], lats[i], lons, 1) \o LatLoop(data, lats, lons, i + 1)

\* lines 39-48
Model2pointsOf(data, lats, lons) == LatLoop(data, lats, lons, 1)

(***************************************************************************)
(* Source models.                                                          *)
(*                                                                         *)
(* FlatModels: every model of at most MaxCells cells whose profiles are    *)
(* the first n <= MaxProf samples of a template (one with distinct         *)
(* samples, one that repeats each sample, as at a zero-thickness layer).   *)
(* depth and vp of a cell are parallel sequences.                          *)
(***************************************************************************)
Templates == {"distinct", "repeated"}

SampleDepth(t, k) == IF t = "distinct" THEN 10 * (k - 1) ELSE 10 * ((k - 1) \div 2)

SampleVp(t, k) == IF t = "distinct" THEN 50 + k ELSE 50 + ((k - 1) \div 2)

Profile(t, n) ==
    [depth |-> [k \in 1..n |-> SampleDepth(t, k)], vp |-> [k \in 1..n |-> SampleVp(t, k)]]

Shapes == {s \in (0..MaxCells) \X (0..MaxCells) : s[1] * s[2] <= MaxCells}

SourceOf(s, t, lens) ==
    [data |-> [i \in 1..s[1] |-> [j \in 1..s[2] |-> Profile(t, lens[<<i, j>>])]],
     lat |-> [i \in 1..s[1] |-> 39 + i],
     lon |-> [j \in 1..s[2] |-> 116 + j]]

FlatModels ==
    UNION {{SourceOf(s, t, lens) : t \in Templates,
                                   lens \in [(1..s[1]) \X (1..s[2]) -> 0..MaxProf]} :
           s \in Shapes}

(***************************************************************************)
(* The source models of the pipeline: an empty model, the single-cell      *)
(* model of three collinear samples, a model whose four points are         *)
(* coplanar, and a 2 x 2 model with samples at depths 0, 2, 4 in which one *)
(* profile skips depth 2.                                                  *)
(*                                                                         *)
(* ModelNaN is a 2 x 2 model whose first profile has five samples, the     *)
(* middle one with a NaN velocity.  Its neighbours on the profile lie      *)
(* between it and the samples at depths 0 and 4, so no simplex holds the   *)
(* NaN sample together with one of those two.                              *)
(***************************************************************************)
Cell(deps, vps) == [depth |-> deps, vp |-> vps]

Full == Cell(<<0, 2, 4>>, <<5, 6, 7>>)

Ends == Cell(<<0, 4>>, <<5, 7>>)

ModelEmpty == [data |-> <<>>, lat |-> <<>>, lon |-> <<>>]

ModelSingle == [data |-> <<<<Full>>>>, lat |-> <<0>>, lon |-> <<0>>]

ModelPlanar == [data |-> <<<<Ends>>, <<Ends>>>>, lat |-> <<0, 1>>, lon |-> <<0>>]

ModelRagged == [data |-> <<<<Full, Full>>, <<Ends, Full>>>>, lat |-> <<0, 1>>, lon |-> <<0, 1>>]

ModelNaN ==
    [data |-> <<<<Cell(<<0, 1, 2, 3, 4>>, <<5, 5, NaN, 7, 7>>), Ends>>, <<Ends, Ends>>>>,
     lat |-> <<0, 1>>, lon |-> <<0, 1>>]

SourceModels == {ModelEmpty, ModelSingle, ModelPlanar, ModelRagged}

(***************************************************************************)
(* scipy.interpolate.griddata(points[:, 0:3], points[:, 3], xi, 'linear')  *)
(* (lines 68-73).  The library triangulates the points (Delaunay/Qhull)    *)
(* and evaluates each query point in the simplex that holds it:            *)
(*   - no points: ValueError; fewer than 4 points or all points coplanar:  *)
(*     QhullError;                                                         *)
(*   - a query point outside the convex hull: NaN;                         *)
(*   - a query point that is a data point: the value there;                *)
(*   - another query point inside the hull: a blend of the simplex's       *)
(*     vertices, within the range of the data;                             *)
(*   - a simplex with a NaN-valued vertex yields NaN (0 * NaN is NaN), and *)
(*     which of the simplices that hold a query point is used is the       *)
(*     library's choice: when the data hold a NaN, up to MaxHoles query    *)
(*     points inside the hull become NaN.                                  *)
(***************************************************************************)
Det3(u, v, w) ==
    u[1] * (v[2] * w[3] - v[3] * w[2])
    - u[2] * (v[1] * w[3] - v[3] * w[1])
    + u[3] * (v[1] * w[2] - v[2] * w[1])

Diff(a, b) == <<a[1] - b[1], a[2] - b[2], a[3] - b[3]>>

Orient(a, b, c, d) == Det3(Diff(b, a), Diff(c, a), Diff(d, a))

Coord(row) == <<row[1], row[2], row[3]>>

\* four of the points are not coplanar
Triangulable(P) ==
    \E i \in 1..Len(P) : \E j \in (i + 1)..Len(P) :
    \E k \in (j + 1)..Len(P) : \E l \in (k + 1)..Len(P) :
        Orient(Coord(P[i]), Coord(P[j]), Coord(P[k]), Coord(P[l])) # 0

InTet(q, a, b, c, d) ==
    LET o == Orient(a, b, c, d)
    IN  /\ o # 0
        /\ Orient(q, b, c, d) * o >= 0
        /\ Orient(a, q, c, d) * o >= 0
        /\ Orient(a, b, q, d) * o >= 0
        /\ Orient(a, b, c, q) * o >= 0

\* q lies in the convex hull of the points: in a tetrahedron of four of them
InHull(q, P) ==
    \E i \in 1..Len(P) : \E j \in (i + 1)..Len(P) :
    \E k \in (j + 1)..Len(P) : \E l \in (k + 1)..Len(P) :
        InTet(q, Coord(P[i]), Coord(P[j]), Coord(P[k]), Coord(P[l]))

\* the grid specifications griddata is called with
DepRanges == {<<0, 4>>, <<0 - 2, 6>>}
LatRanges == {<<0, 1>>, <<0, 2>>}
LonRanges == {<<0, 1>>}

Counts == (1..MaxNDep) \X (1..MaxNLat) \X (1..MaxNLon)

\* the sample coordinates are integers
Exact(mm, n) == IF n = 1 THEN TRUE ELSE (mm[2] - mm[1]) % (n - 1) = 0

\* utils.init_axis: n samples from mm[0] to mm[1], both ends included
InitAxis(mm, n) ==
    [k \in 1..n |-> IF n = 1 THEN mm[1] ELSE mm[1] + (k - 1) * ((mm[2] - mm[1]) \div (n - 1))]

AxisPoints(ranges, maxn) ==
    UNION {{InitAxis(mm, n)[k] : k \in 1..n} : mm \in ranges, n \in 1..maxn}

\* every point griddata may query
Lattice ==
    AxisPoints(DepRanges, MaxNDep) \X AxisPoints(LatRanges, MaxNLat)
    \X AxisPoints(LonRanges, MaxNLon)

Clouds == {Model2pointsOf(m.data, m.lat, m.lon) : m \in SourceModels \cup {ModelNaN}}

(***************************************************************************)
(* InHull and Triangulable of the pipeline's point clouds over the lattice *)
(* of query points, tabulated once.                                        *)
(***************************************************************************)
RECURSIVE InsideOf(_, _)
InsideOf(P, Q) ==
    IF Q = {} THEN {}
    ELSE LET q == CHOOSE x \in Q : TRUE
         IN  IF InHull(q, P) THEN {q} \cup InsideOf(P, Q \ {q}) ELSE InsideOf(P, Q \ {q})

RECURSIVE Tabulate(_)
Tabulate(Ps) ==
    IF Ps = {} THEN <<>>
    ELSE LET P == CHOOSE x \in Ps : TRUE
         IN  <<[cloud |-> P, tri |-> Triangulable(P), inside |-> InsideOf(P, Lattice)]>>
             \o Tabulate(Ps \ {P})

Geometry == Tabulate(Clouds)

Tabulated(P) == \E e \in 1..Len(Geometry) : Geometry[e].cloud = P

Entry(P) == Geometry[CHOOSE e \in 1..Len(Geometry) : Geometry[e].cloud = P]

\* the triangulation of P: whether there is one, and the lattice points in the hull
Delaunay(P) ==
    IF Tabulated(P) THEN Entry(P)
    ELSE [cloud |-> P, tri |-> Triangulable(P), inside |-> InsideOf(P, Lattice)]

VertexVals(q, P) == {P[r][4] : r \in {r \in 1..Len(P) : Coord(P[r]) = q}}

DataVals(P) == {P[r][4] : r \in 1..Len(P)} \ {NaN}

HasNaN(P) == \E r \in 1..Len(P) : P[r][4] = NaN

\* the values the interpolant may take at q
Candidates(q, P, tri) ==
    IF q \notin tri.inside THEN {NaN}
    ELSE LET vv == VertexVals(q, P)
         IN  IF vv # {} THEN vv
             ELSE IF DataVals(P) = {} THEN {NaN}
             ELSE Min(DataVals(P))..Max(DataVals(P))

\* np.meshgrid(dd, tt, pp, indexing='ij') at index x (line 67)
Query(ax, x) == <<ax[1][x[1]], ax[2][x[2]], ax[3][x[3]]>>

AxShape(ax) == <<Len(ax[1]), Len(ax[2]), Len(ax[3])>>

\* the grids of that shape whose cell x holds one of cand[x], or NaN at the holes
GridsOf(shape, cand, free, holes) ==
    LET choices == {c \in [free -> UNION {cand[x] : x \in free}] :
                        \A x \in free : c[x] \in cand[x]}
    IN  {Array(shape, [x \in Idx(shape) |->
                        IF x \in H THEN NaN
                        ELSE IF x \in free THEN c[x]
                        ELSE CHOOSE v \in cand[x] : TRUE]) :
         c \in choices, H \in holes}

CandidateGrids(shape, cand, inside, nan) ==
    GridsOf(shape, cand,
            {x \in Idx(shape) : Cardinality(cand[x]) > 1},
            IF nan THEN {H \in SUBSET inside : Cardinality(H) <= MaxHoles} ELSE {{}})

\* the grids griddata(...) may return for the axes ax
InterpResults(P, ax, tri) ==
    CandidateGrids(AxShape(ax),
                   TabulatedFn([x \in Idx(AxShape(ax)) |-> Candidates(Query(ax, x), P, tri)]),
                   {x \in Idx(AxShape(ax)) : Query(ax, x) \in tri.inside},
                   HasNaN(P))

(***************************************************************************)
(* The hole-fill loop (lines 75-83).                                       *)
(***************************************************************************)
\* grid_vp[:, i, j]
Column(g, i, j) == [k \in 1..g.shape[1] |-> g.data[<<k, i, j>>]]

\* np.where(~np.isnan(vp_dep))[0]
NonNan(c) == {k \in 1..Len(c) : c[k] # NaN}

\* line 81: vp_dep[:first_non_nan_index] = vp_dep[first_non_nan_index]
FillShallower(c, first) == [k \in 1..Len(c) |-> IF k < first THEN c[first] ELSE c[k]]

\* line 82: vp_dep[last_non_nan_index+1:] = vp_dep[last_non_nan_index]
FillDeeper(c, lastnn) == [k \in 1..Len(c) |-> IF k > lastnn THEN c[lastnn] ELSE c[k]]

\* only the cell next to the first and to the last defined cell is filled
FillColumnOneCell(c) ==
    [k \in 1..Len(c) |->
        IF k = Min(NonNan(c)) - 1 THEN c[Min(NonNan(c))]
        ELSE IF k = Max(NonNan(c)) + 1 THEN c[Max(NonNan(c))]
        ELSE c[k]]

\* the two boundary values exchanged
FillColumnSwapped(c) ==
    [k \in 1..Len(c) |->
        IF k < Min(NonNan(c)) THEN c[Max(NonNan(c))]
        ELSE IF k > Max(NonNan(c)) THEN c[Min(NonNan(c))]
        ELSE c[k]]

\* lines 79-82, for a column with a defined value
FillColumn(c) == FillDeeper(FillShallower(c, Min(NonNan(c))), Max(NonNan(c)))

\* the columns at which line 79 raises IndexError
EmptyColumns(g) ==
    {ij \in (1..g.shape[2]) \X (1..g.shape[3]) : NonNan(Column(g, ij[1], ij[2])) = {}}

\* the grid whose column (i, j) is cols[i, j]
FromColumns(shape, cols) == Array(shape, [x \in Idx(shape) |-> cols[<<x[2], x[3]>>][x[1]]])

\* lines 76-83 over all columns, none of them empty
FillGrid(g) ==
    FromColumns(g.shape,
                TabulatedFn([ij \in (1..g.shape[2]) \X (1..g.shape[3]) |->
                                FillColumn(Column(g, ij[1], ij[2]))]))

(***************************************************************************)
(* The state before CrustModel(fname) is called.                           *)
(***************************************************************************)
NoCall == [op |-> "none", ok |-> TRUE, err |-> "none", stage |-> "none", empty |-> FALSE]

\* empty: the grid handed to the fill loop has an all-NaN column
Call(op, ok, err, stage, empty) ==
    [op |-> op, ok |-> ok, err |-> err, stage |-> stage, empty |-> empty]

NoHist == [gridded |-> FALSE, smoothed |-> FALSE, n_rtp |-> <<0, 0, 0>>, grid_vp |-> Unset]

FName == "model_crust1.0.h5"

\* a file without datasets
NoSets == [n \in {} |-> Unset]

NoFile == [exists |-> FALSE, sets |-> NoSets]

\* a file of the same name left by an earlier program
OldFile == [exists |-> TRUE, sets |-> [n \in {"vel", "vs"} |-> Zeros(<<1, 1, 1>>)]]

NewObject ==
    /\ constructed = FALSE
    /\ mod_data = <<>> /\ mod_lat = <<>> /\ mod_lon = <<>> /\ points = <<>>
    /\ eta = Unset /\ xi = Unset /\ zeta = Unset /\ vel = Unset
    /\ last = NoCall
    /\ hist = NoHist

NoFill == g_in = Unset /\ g_out = Unset /\ passes = 0

(***************************************************************************)
(* __init__ (lines 24-34): load the three arrays, then model2points.       *)
(***************************************************************************)
Construct ==
    /\ ~constructed
    /\ constructed' = TRUE
    /\ mod_data' = npz.data
    /\ mod_lat' = npz.lat
    /\ mod_lon' = npz.lon
    /\ points' = Model2pointsOf(npz.data, npz.lat, npz.lon)
    /\ last' = Call("init", TRUE, "none", "flatten", FALSE)
    /\ UNCHANGED <<npz, arrays, disk, hist, fillvars>>

\* model2points called on a constructed object (lines 36-48)
Model2points ==
    /\ constructed
    /\ points' = Model2pointsOf(mod_data, mod_lat, mod_lon)
    /\ last' = Call("model2points", TRUE, "none", "flatten", FALSE)
    /\ UNCHANGED <<npz, constructed, mod_data, mod_lat, mod_lon, arrays, disk, hist,
                   fillvars>>

(***************************************************************************)
(* griddata (lines 50-89).                                                 *)
(***************************************************************************)
\* lines 85-89 with the placeholders of the transposed shape
OutputTransposed(n_rtp, grid_vp) ==
    LET z == Zeros(<<n_rtp[3], n_rtp[2], n_rtp[1]>>)
    IN  [eta |-> z, xi |-> z, zeta |-> z, vel |-> grid_vp]

\* lines 85-89: the four arrays assigned
Output(n_rtp, grid_vp) ==
    [eta |-> Zeros(n_rtp), xi |-> Zeros(n_rtp), zeta |-> Zeros(n_rtp), vel |-> grid_vp]

\* lines 86-88 moved before the interpolation: what a failed call leaves assigned
EarlyZeros(n_rtp, old) == [eta |-> Zeros(n_rtp), xi |-> Zeros(n_rtp), zeta |-> Zeros(n_rtp),
                           vel |-> old.vel]

\* the arrays a call that raises leaves: what they were
Aborted(n_rtp, old) == old

Current == [eta |-> eta, xi |-> xi, zeta |-> zeta, vel |-> vel]

Assign(out) == eta' = out.eta /\ xi' = out.xi /\ zeta' = out.zeta /\ vel' = out.vel

GriddataWith(tri) ==
    /\ constructed
    /\ \E mmd \in DepRanges, mmt \in LatRanges, mmp \in LonRanges, n_rtp \in Counts :
        /\ Exact(mmd, n_rtp[1]) /\ Exact(mmt, n_rtp[2]) /\ Exact(mmp, n_rtp[3])
        \* lines 62-64; self.dd, self.tt and self.pp are read by no other method
        /\ LET ax == <<InitAxis(mmd, n_rtp[1]), InitAxis(mmt, n_rtp[2]), InitAxis(mmp, n_rtp[3])>>
           IN
           IF points = <<>>
           THEN \* line 68 raises: no points given
                /\ last' = Call("griddata", FALSE, "ValueError", "interpolate", FALSE)
                /\ Assign(Aborted(n_rtp, Current))
                /\ hist' = hist
           ELSE IF ~tri.tri
           THEN \* line 68 raises: the initial simplex is flat
                /\ last' = Call("griddata", FALSE, "QhullError", "interpolate", FALSE)
                /\ Assign(Aborted(n_rtp, Current))
                /\ hist' = hist
           ELSE \E grid_vp \in InterpResults(points, ax, tri) :
                IF EmptyColumns(grid_vp) # {}
                THEN \* line 79 raises: index 0 is out of bounds
                     /\ last' = Call("griddata", FALSE, "IndexError", "fill", TRUE)
                     /\ Assign(Aborted(n_rtp, Current))
                     /\ hist' = hist
                ELSE /\ last' = Call("griddata", TRUE, "none", "output", FALSE)
                     /\ Assign(Output(n_rtp, FillGrid(grid_vp)))
                     /\ hist' = [gridded |-> TRUE, smoothed |-> FALSE,
                                 n_rtp |-> n_rtp, grid_vp |-> grid_vp]
    /\ UNCHANGED <<npz, obj, disk, fillvars>>

Griddata == GriddataWith(Delaunay(points))

(***************************************************************************)
(* smooth (lines 91-92): scipy.ndimage.gaussian_filter(self.vel, sigma),   *)
(* one pass of a 1-D kernel along each axis in turn, mode 'reflect',       *)
(* truncated at 4 sigma.  The kernel of sigma = 1 is exp(-t^2 / 2), here   *)
(* in units of 1/10000; an axis of sigma = 0 is skipped.  Each pass        *)
(* rounds to the nearest integer; a NaN under the kernel gives NaN.        *)
(***************************************************************************)
Sigmas == {0, 1}

Kernel(sigma) == IF sigma = 0 THEN <<1>> ELSE <<3, 111, 1353, 6065, 10000, 6065, 1353, 111, 3>>

RECURSIVE SumSeq(_)
SumSeq(q) == IF q = <<>> THEN 0 ELSE Head(q) + SumSeq(Tail(q))

\* mode 'reflect' (d c b a | a b c d | d c b a): the index position p stands for
Reflect(p, n) ==
    LET m == (p - 1) % (2 * n)
    IN  IF m < n THEN m + 1 ELSE 2 * n - m

\* the index x moved to position p along axis ax
At(x, ax, p) == [x EXCEPT ![ax] = p]

\* scipy.ndimage.correlate1d along axis ax
Correlate1d(a, w, ax) ==
    LET r == (Len(w) - 1) \div 2
        n == a.shape[ax]
        tap(x, t) == a.data[At(x, ax, Reflect(x[ax] + t - 1 - r, n))]
        total == SumSeq(w)
    IN  Array(a.shape,
              [x \in Idx(a.shape) |->
                  IF \E t \in 1..Len(w) : tap(x, t) = NaN THEN NaN
                  ELSE (SumSeq([t \in 1..Len(w) |-> w[t] * tap(x, t)]) + total \div 2)
                       \div total])

\* gaussian_filter(a, sigma)
GaussianFilter(a, sigma) ==
    IF sigma = 0 THEN a
    ELSE Correlate1d(Correlate1d(Correlate1d(a, Kernel(sigma), 1), Kernel(sigma), 2),
                     Kernel(sigma), 3)

Smooth ==
    /\ constructed
    /\ \E sigma \in Sigmas :
        IF vel.set
        THEN /\ vel' = GaussianFilter(vel, sigma)
             /\ last' = Call("smooth", TRUE, "none", "smooth", FALSE)
             /\ hist' = [hist EXCEPT !.smoothed = TRUE]
        ELSE \* self.vel does not exist
             /\ vel' = vel
             /\ last' = Call("smooth", FALSE, "AttributeError", "smooth", FALSE)
             /\ hist' = hist
    /\ UNCHANGED <<npz, obj, eta, xi, zeta, disk, fillvars>>

(***************************************************************************)
(* write (lines 94-104): h5py.File(fname, 'w') truncates the file, then    *)
(* the four datasets are created in turn.  The block ends at the first     *)
(* attribute that does not exist (AttributeError) or at the first I/O      *)
(* error (OSError); the file then holds the datasets created before.       *)
(***************************************************************************)
Names == <<"eta", "xi", "zeta", "vel">>

Faults == {"none", "open", "eta", "xi", "zeta", "vel"}

Attr(n) == IF n = "eta" THEN eta ELSE IF n = "xi" THEN xi ELSE IF n = "zeta" THEN zeta ELSE vel

\* the steps of lines 101-104 that complete: those before the first that raises
Created(fault) ==
    LET bad == {k \in 1..Len(Names) : ~Attr(Names[k]).set \/ fault = Names[k]}
    IN  IF bad = {} THEN Len(Names) ELSE Min(bad) - 1

\* mode 'a': the datasets of the file of that name are kept
OpenedAppend(old) == [exists |-> TRUE, sets |-> old.sets]

\* h5py.File(fname, 'w'): create the file, truncate if it exists
Opened(old) == [exists |-> TRUE, sets |-> NoSets]

\* create_dataset(name, data=...) for the first k names
WithDatasets(file, k) ==
    [file EXCEPT !.sets = [n \in DOMAIN file.sets \cup {Names[i] : i \in 1..k} |->
                              IF \E i \in 1..k : Names[i] = n THEN Attr(n) ELSE file.sets[n]]]

Write ==
    /\ constructed
    /\ \E fname \in DOMAIN disk, fault \in Faults :
        IF fault = "open"
        THEN \* the file cannot be created
             /\ disk' = disk
             /\ last' = Call("write", FALSE, "OSError", "open", FALSE)
        ELSE LET k == Created(fault)
             IN  /\ disk' = [disk EXCEPT ![fname] = WithDatasets(Opened(disk[fname]), k)]
                 /\ last' = IF k = Len(Names)
                            THEN Call("write", TRUE, "none", "write", FALSE)
                            ELSE IF ~Attr(Names[k + 1]).set
                            THEN Call("write", FALSE, "AttributeError", "write", FALSE)
                            ELSE Call("write", FALSE, "OSError", "write", FALSE)
    /\ UNCHANGED <<npz, obj, arrays, hist, fillvars>>

(***************************************************************************)
(* The pipeline: any sequence of calls on one CrustModel.                  *)
(***************************************************************************)
Init ==
    /\ npz \in SourceModels
    /\ NewObject
    /\ disk \in [{FName} -> {NoFile, OldFile}]
    /\ NoFill

Next == Construct \/ Griddata \/ Smooth \/ Write

Spec == Init /\ [][Next]_vars

\* the pipeline on a source model that holds a NaN velocity
InitNaN ==
    /\ npz = ModelNaN
    /\ NewObject
    /\ disk \in [{FName} -> {NoFile, OldFile}]
    /\ NoFill

SpecNaN == InitNaN /\ [][Next]_vars

(***************************************************************************)
(* The hole-fill loop on its own: lines 76-83 applied to every grid of one *)
(* depth column, and applied again to its own result.                      *)
(***************************************************************************)
MaxPasses == 2

FillVals == {NaN, 5, 6, 7}

\* single columns of every depth, and the grids of two columns of depth two
FillShapes == ((1..MaxFillDep) \X {1} \X {1}) \cup {<<2, 2, 1>>, <<2, 1, 2>>}

RawGrids == UNION {{Array(shape, f) : f \in [Idx(shape) -> FillVals]} : shape \in FillShapes}

HoleFill ==
    /\ passes >= 0
    /\ passes < MaxPasses
    /\ IF EmptyColumns(g_out) # {}
       THEN /\ g_out' = g_out
            /\ passes' = 0 - 1
            /\ last' = Call("fill", FALSE, "IndexError", "fill", TRUE)
       ELSE /\ g_out' = FillGrid(g_out)
            /\ passes' = passes + 1
            /\ last' = Call("fill", TRUE, "none", "fill", FALSE)
    /\ UNCHANGED <<npz, obj, arrays, disk, hist, g_in>>

InitFill ==
    /\ npz = ModelEmpty
    /\ NewObject
    /\ disk = [f \in {FName} |-> NoFile]
    /\ g_in \in RawGrids
    /\ g_out = g_in
    /\ passes = 0

NextFill == HoleFill

SpecFill == InitFill /\ [][NextFill]_vars

InitFlat ==
    /\ npz \in FlatModels
    /\ NewObject
    /\ disk = [f \in {FName} |-> NoFile]
    /\ NoFill

NextFlat == Construct \/ Model2points

SpecFlat == InitFlat /\ [][NextFlat]_vars

(***************************************************************************)
(* The properties of the hole-fill loop, checked under SpecFill.           *)
(***************************************************************************)
FillGridColumns == (1..g_in.shape[2]) \X (1..g_in.shape[3])

\* the defined index nearest to k in column c
Nearest(c, k) ==
    {m \in NonNan(c) : \A m2 \in NonNan(c) :
        (IF k >= m THEN k - m ELSE m - k) <= (IF k >= m2 THEN k - m2 ELSE m2 - k)}

ColumnFilled(c, d) ==
    /\ Len(d) = Len(c)
    /\ \A k \in 1..Len(c) :
        /\ k < Min(NonNan(c)) => d[k] = c[Min(NonNan(c))]
        /\ k > Max(NonNan(c)) => d[k] = c[Max(NonNan(c))]
        /\ c[k] # NaN => d[k] = c[k]
        /\ d[k] # c[k] => \E m \in Nearest(c, k) : d[k] = c[m]

\* C3: after one pass of the fill loop over a grid whose columns all hold a
\* defined value, every index shallower than the first defined index of a
\* column holds the value at that index, every index deeper than the last
\* defined index holds the value at that one, every defined entry kept its
\* value, and every value written is that of the nearest defined entry.
C3_FillExtendsBoundaryValues ==
    passes = 1 =>
        /\ g_out.shape = g_in.shape
        /\ \A ij \in FillGridColumns :
            ColumnFilled(Column(g_in, ij[1], ij[2]), Column(g_out, ij[1], ij[2]))

\* a pass that filled above and below a column whose first and last defined
\* values differ
C3_Witness ==
    /\ passes = 1
    /\ \E ij \in FillGridColumns :
        LET c == Column(g_in, ij[1], ij[2])
        IN  /\ Min(NonNan(c)) > 1
            /\ Max(NonNan(c)) < Len(c)
            /\ c[Min(NonNan(c))] # c[Max(NonNan(c))]
            /\ Column(g_out, ij[1], ij[2])[1] = c[Min(NonNan(c))]

\* C4: the hole fill is idempotent: a second pass of the fill loop over an
\* already filled grid leaves the grid as the first pass made it.
C4_FillIdempotent == [][(passes = 1 /\ passes' = 2) => g_out' = g_out]_vars

\* two passes over a grid with two or more undefined cells below its single
\* defined one
C4_Witness ==
    /\ passes = 2
    /\ g_out # g_in
    /\ \E ij \in FillGridColumns :
        LET c == Column(g_in, ij[1], ij[2])
        IN  Max(NonNan(c)) + 2 <= Len(c)

(***************************************************************************)
(* The properties of model2points, checked under SpecFlat.                 *)
(***************************************************************************)
Cells == (1..Len(mod_lat)) \X (1..Len(mod_lon))

ProfileLen(ij) == Len(mod_data[ij[1]][ij[2]].depth)

RECURSIVE TotalLen(_)
TotalLen(cells) ==
    IF cells = {} THEN 0
    ELSE LET ij == CHOOSE x \in cells : TRUE
         IN  ProfileLen(ij) + TotalLen(cells \ {ij})

\* the row of sample k of cell (i, j)
RowOf(ij, k) ==
    <<mod_data[ij[1]][ij[2]].depth[k], mod_lat[ij[1]], mod_lon[ij[2]],
      mod_data[ij[1]][ij[2]].vp[k]>>

\* C5: model2points is complete and exact: points has as many rows as the
\* profiles have samples, no row carries the (lat, lon) of a cell with a
\* zero-length profile, and each sample (i, j, k) has exactly one row
\* (depth[i][j][k], lat[i], lon[j], vp[i][j][k]): a row occurs as often as
\* there are samples of its cell that give it.
C5_Model2pointsExact ==
    constructed =>
        /\ Len(points) = TotalLen(Cells)
        /\ \A ij \in Cells :
            /\ ProfileLen(ij) = 0 =>
                  ~\E r \in 1..Len(points) :
                      points[r][2] = mod_lat[ij[1]] /\ points[r][3] = mod_lon[ij[2]]
            /\ \A k \in 1..ProfileLen(ij) :
                  Cardinality({r \in 1..Len(points) : points[r] = RowOf(ij, k)})
                  = Cardinality({k2 \in 1..ProfileLen(ij) : RowOf(ij, k2) = RowOf(ij, k)})

\* a model with an empty profile and a profile of two different samples
C5_Witness ==
    /\ constructed
    /\ \E ij \in Cells : ProfileLen(ij) = 0
    /\ \E ij \in Cells : ProfileLen(ij) = 2 /\ RowOf(ij, 1) # RowOf(ij, 2)
    /\ Len(points) >= 3

(***************************************************************************)
(* The properties of the pipeline, checked under Spec and SpecNaN.         *)
(***************************************************************************)
\* C1: after griddata returns normally, no depth column of vel holds an
\* undefined (NaN) entry, whatever pattern of defined and undefined cells the
\* interpolation handed to the fill loop.
C1_NoUndefinedAfterGriddata ==
    (last.op = "griddata" /\ last.ok) =>
        \A i \in 1..vel.shape[2], j \in 1..vel.shape[3], k \in 1..vel.shape[1] :
            Column(vel, i, j)[k] # NaN

\* C2: when the interpolated grid has a depth column without a defined
\* value, griddata signals the dedicated empty-column error.
C2_EmptyColumnSignalled ==
    (last.op = "griddata" /\ last.empty) => (~last.ok /\ last.err = "EmptyColumnError")

Shaped(a, n_rtp) == a.set /\ a.shape = n_rtp /\ DOMAIN a.data = Idx(n_rtp)

\* C6: after a successful griddata with counts n_rtp, followed by any
\* number of smooth calls of any spread, eta, xi, zeta and vel all have the
\* shape n_rtp; no smooth changes the shape of vel.
C6_ShapesAgree ==
    hist.gridded =>
        /\ Shaped(eta, hist.n_rtp) /\ Shaped(xi, hist.n_rtp)
        /\ Shaped(zeta, hist.n_rtp) /\ Shaped(vel, hist.n_rtp)

\* a smooth of spread 1 of a grid whose three counts differ
C6_Witness ==
    /\ hist.gridded /\ hist.smoothed
    /\ last.op = "smooth" /\ last.ok
    /\ hist.n_rtp = <<MaxNDep, MaxNLat, MaxNLon>>
    /\ vel # FillGrid(hist.grid_vp)

\* the file a successful write leaves
Written(file) ==
    /\ file.exists
    /\ DOMAIN file.sets = {Names[k] : k \in 1..Len(Names)}
    /\ file.sets["eta"] = Zeros(hist.n_rtp)
    /\ file.sets["xi"] = Zeros(hist.n_rtp)
    /\ file.sets["zeta"] = Zeros(hist.n_rtp)
    /\ file.sets["vel"] = vel
    /\ ~hist.smoothed => file.sets["vel"] = FillGrid(hist.grid_vp)

\* C7: a successful write, after any sequence of griddata, smooth and write
\* calls, leaves a destination that holds exactly the datasets eta, xi, zeta
\* and vel and nothing of an earlier file of that name; eta, xi and zeta are
\* zero and vel is the velocity grid in memory at that write (the
\* hole-filled grid if no smooth followed the last griddata); and no write
\* changes an array in memory.
C7_WriteExact ==
    [][last'.op = "write" =>
          /\ UNCHANGED <<eta, xi, zeta, vel>>
          /\ last'.ok => Written(disk[FName])']_vars

\* a successful write of a smoothed grid over an earlier file of that name
C7_Witness ==
    /\ last.op = "write" /\ last.ok
    /\ npz = ModelRagged
    /\ hist.smoothed
    /\ vel # FillGrid(hist.grid_vp)
    /\ Written(disk[FName])
    /\ DOMAIN OldFile.sets \ DOMAIN disk[FName].sets # {}

AllFour(file) == file.exists /\ DOMAIN file.sets = {Names[k] : k \in 1..Len(Names)}

\* C8: a write that fails, at the opening of the destination or at the
\* creation of any of the four datasets (the write before griddata has set
\* eta included), leaves no partial file: the destination holds all four
\* datasets of this write or is what it was before the call.
C8_FailedWriteLeavesNoPartialFile ==
    [][(last'.op = "write" /\ ~last'.ok) =>
          \A fname \in DOMAIN disk : disk'[fname] = disk[fname] \/ AllFour(disk'[fname])]_vars

\* C9: griddata on a point cloud with fewer than 4 non-coplanar points (the
\* empty cloud included) signals an interpolation error and stops before the
\* hole-fill loop: no column is filled, and eta, xi, zeta and vel are neither
\* assigned nor changed.  The points of an object are those of its source
\* model for good, so every griddata call on it has failed and the four
\* arrays are as __init__ left them: not assigned.
C9_UntriangulableAborts ==
    (constructed /\ ~Triangulable(points)) =>
        /\ ~eta.set /\ ~xi.set /\ ~zeta.set /\ ~vel.set
        /\ ~hist.gridded
        /\ last.op = "griddata" =>
              /\ ~last.ok
              /\ last.err \in {"ValueError", "QhullError"}
              /\ last.stage = "interpolate"

\* griddata has failed on four coplanar points and has set no array
C9_Witness ==
    /\ last.op = "griddata" /\ ~last.ok /\ last.err = "QhullError"
    /\ Len(points) >= 4
    /\ ~Triangulable(points)
    /\ ~eta.set /\ ~xi.set /\ ~zeta.set /\ ~vel.set

\* C10: the stages run in the order load, flatten, interpolate, fill,
\* smooth, write: the flattening has completed before a griddata call
\* starts, a smooth or write that succeeds follows a griddata that completed
\* its interpolation and hole fill, and a smooth or write before any
\* successful griddata fails and produces neither a velocity grid nor an
\* output container.
C10_StagesInOrder ==
    [][/\ last'.op = "griddata" => (constructed /\ points = Model2pointsOf(mod_data, mod_lat, mod_lon))
       /\ (last'.op \in {"smooth", "write"} /\ last'.ok) => hist.gridded
       /\ (last'.op \in {"smooth", "write"} /\ ~hist.gridded) =>
             /\ ~last'.ok
             /\ ~vel'.set
             /\ disk' = disk]_vars

====
